---- MODULE Spec2Model ----
(***************************************************************************)
(* The resource provider registrar backed by versioned storage             *)
(* (GenericRegistrarProcess in src/resource_provider/registrar.cpp), with  *)
(* the Admit/Remove operations it applies to the registry.                 *)
(*                                                                         *)
(* The actor runs one handler at a time.  A call dispatched by the facade  *)
(* (recover, apply) is handled at some later time of its own; the action   *)
(* of the call is that handler running.  The events the process dispatches *)
(* to itself (the deferred continuations) wait in the mailbox and are      *)
(* handled in the order they were dispatched.  Storage answers fetch and   *)
(* store calls at any later time.                                          *)
(***************************************************************************)
EXTENDS Integers, Sequences, FiniteSets, TLC

\* Number of operations callers submit in one run.
MaxOps == 3
\* Resource provider identities are 1..MaxId.
MaxId == 2
\* Number of operations callers submit in the runs checked for progress.
MaxProgressOps == 2

Ids == 1..MaxId
Kinds == {"Admit", "Remove"}

\* Registries storage may hand back on fetch (the default one is empty).
RecoveredRegistries == {<<>>, <<1>>}

VARIABLES
  recovered,    \* Option<Future<Nothing>>: 0 is None, else the index in fetches
  registry,     \* Option<Registry>
  variable,     \* Option<Variable<Registry>>
  error,        \* Option<Error>
  operations,   \* deque of the queued operations (indexes in ops)
  updating,     \* bool
  ops,          \* the Operation objects, in the order apply() handled them
  mailbox,      \* deferred calls dispatched to the actor and not yet handled
  fetches,      \* the fetch calls made on storage, with the futures chained on them
  stores,       \* the store calls made on storage, with what _update is bound to
  aborted,      \* a CHECK of the process has fired
  returned,     \* history: the futures recover() calls returned, each with
                \* whether the process had committed a batch by then
  accepted,     \* history: operations in the order _apply queued them
  performed,    \* history: operations in the order update() performed them
  signalled     \* history: operations in the order their future was completed

vars == <<recovered, registry, variable, error, operations, updating, ops,
          mailbox, fetches, stores, aborted, returned,
          accepted, performed, signalled>>

-----------------------------------------------------------------------------
(* Values *)

None == [some |-> FALSE]
Some(v) == [some |-> TRUE, value |-> v]

Pending == [state |-> "pending"]
Ready(v) == [state |-> "ready", value |-> v]
Failed(m) == [state |-> "failed", message |-> m]
Discarded == [state |-> "discarded"]

PreconditionMessage == <<"Attempted to apply the operation before recovering">>
AdmitError == <<"Resource provider already admitted">>
RemoveError == <<"Attempted to remove an unknown resource provider">>
StorageFailure == <<"storage failure">>

IdsOf(reg) == {reg[i] : i \in DOMAIN reg}

-----------------------------------------------------------------------------
(* Operations on the registry *)

\* std::find_if over resource_providers(): first position holding id, 0 for end().
FindIf(reg, id) ==
  IF \E i \in DOMAIN reg : reg[i] = id
  THEN CHOOSE i \in DOMAIN reg :
         reg[i] = id /\ \A j \in DOMAIN reg : reg[j] = id => i <= j
  ELSE 0

Erase(reg, pos) == SubSeq(reg, 1, pos - 1) \o SubSeq(reg, pos + 1, Len(reg))

\* An admit that appends without looking for the identity.
AdmitPerformNoLookup(reg, id) ==
  [isError |-> FALSE, error |-> <<>>, registry |-> Append(reg, id)]

\* Try<bool> with the registry as perform left it.
AdmitPerform(reg, id) ==
  IF FindIf(reg, id) # 0
  THEN [isError |-> TRUE, error |-> AdmitError, registry |-> reg]
  ELSE [isError |-> FALSE, error |-> <<>>, registry |-> Append(reg, id)]

\* A remove that reports the mutation without erasing the record.
RemovePerformKeepsRecord(reg, id) ==
  IF FindIf(reg, id) = 0
  THEN [isError |-> TRUE, error |-> RemoveError, registry |-> reg]
  ELSE [isError |-> FALSE, error |-> <<>>, registry |-> reg]

RemovePerform(reg, id) ==
  LET pos == FindIf(reg, id) IN
  IF pos = 0
  THEN [isError |-> TRUE, error |-> RemoveError, registry |-> reg]
  ELSE [isError |-> FALSE, error |-> <<>>, registry |-> Erase(reg, pos)]

Perform(op, reg) ==
  IF op.kind = "Admit" THEN AdmitPerform(reg, op.id) ELSE RemovePerform(reg, op.id)

\* An operator() that records success whatever perform returned.
InvokeIgnoresError(op, reg) ==
  LET result == Perform(op, reg) IN
  [op |-> [op EXCEPT !.success = TRUE, !.performs = @ + 1,
                     !.before = reg, !.after = result.registry],
   registry |-> result.registry]

\* Registrar::Operation::operator(): perform, then success = !result.isError().
Invoke(op, reg) ==
  LET result == Perform(op, reg) IN
  [op |-> [op EXCEPT !.success = ~result.isError, !.performs = @ + 1,
                     !.before = reg, !.after = result.registry],
   registry |-> result.registry]

\* Promise<bool>::set / fail complete a future that is still pending only.
Complete(op, outcome) ==
  IF op.future.state = "pending" THEN [op EXCEPT !.future = outcome] ELSE op

\* Registrar::Operation::set()
OperationSet(op) == [Complete(op, Ready(op.success)) EXCEPT !.signals = @ + 1]

OperationFail(op, message) ==
  [Complete(op, Failed(message)) EXCEPT !.signals = @ + 1]

-----------------------------------------------------------------------------
(* The state a handler works on, and its write-back *)

State ==
  [recovered |-> recovered, registry |-> registry, variable |-> variable,
   error |-> error, operations |-> operations, updating |-> updating,
   ops |-> ops, mailbox |-> mailbox, fetches |-> fetches, stores |-> stores,
   aborted |-> aborted, returned |-> returned,
   accepted |-> accepted, performed |-> performed,
   signalled |-> signalled]

\* The handler has run: the variables take the values it computed.
Becomes(result) ==
  \E s \in {result} :
    /\ recovered' = s.recovered
    /\ registry' = s.registry
    /\ variable' = s.variable
    /\ error' = s.error
    /\ operations' = s.operations
    /\ updating' = s.updating
    /\ ops' = s.ops
    /\ mailbox' = s.mailbox
    /\ fetches' = s.fetches
    /\ stores' = s.stores
    /\ aborted' = s.aborted
    /\ returned' = s.returned
    /\ accepted' = s.accepted
    /\ performed' = s.performed
    /\ signalled' = s.signalled

Event(type, arg) == [type |-> type, arg |-> arg]

\* The actor takes the event at the head of its mailbox.
Taken(type) ==
  /\ ~aborted
  /\ mailbox # <<>>
  /\ Head(mailbox).type = type

AfterTake == [State EXCEPT !.mailbox = Tail(mailbox)]

\* A new Operation object, as the caller hands it to apply().  History kept
\* with it: performs and signals count the calls of operator() and of
\* set()/fail(), before and after are the working registry around operator().
NewOperation(kind, id) ==
  [kind |-> kind, id |-> id, success |-> FALSE, future |-> Pending,
   performs |-> 0, signals |-> 0, before |-> <<>>, after |-> <<>>]

-----------------------------------------------------------------------------
(* GenericRegistrarProcess *)

\* Variable<Registry>::mutate
Mutate(var, reg) == [var EXCEPT !.value = reg]

\* A foreach that gives up the batch at the first operation that is rejected.
RECURSIVE PerformAllUntilError(_, _, _)
PerformAllUntilError(queue, os, reg) ==
  IF queue = <<>>
  THEN [ops |-> os, registry |-> reg]
  ELSE LET r == Invoke(os[Head(queue)], reg) IN
       IF ~r.op.success
       THEN [ops |-> [os EXCEPT ![Head(queue)] = r.op], registry |-> reg]
       ELSE PerformAllUntilError(Tail(queue), [os EXCEPT ![Head(queue)] = r.op],
                                 r.registry)

\* The foreach of update(): every queued operation on the working copy, in order.
RECURSIVE PerformAll(_, _, _)
PerformAll(queue, os, reg) ==
  IF queue = <<>>
  THEN [ops |-> os, registry |-> reg]
  ELSE LET r == Invoke(os[Head(queue)], reg) IN
       PerformAll(Tail(queue), [os EXCEPT ![Head(queue)] = r.op], r.registry)

\* An update() that completes a batch that left the registry unchanged
\* without storing it.
updateSkipsUnchanged(s) ==
  IF s.updating \/ s.error.some
  THEN [s EXCEPT !.aborted = TRUE]
  ELSE IF s.operations = <<>>
  THEN s
  ELSE IF ~s.registry.some \/ ~s.variable.some
  THEN [s EXCEPT !.updating = TRUE, !.aborted = TRUE]
  ELSE LET r == PerformAll(s.operations, s.ops, s.registry.value) IN
       IF r.registry = s.registry.value
       THEN [s EXCEPT !.ops = [n \in DOMAIN r.ops |->
                                IF \E k \in DOMAIN s.operations : s.operations[k] = n
                                THEN OperationSet(r.ops[n])
                                ELSE r.ops[n]],
                      !.performed = @ \o s.operations,
                      !.signalled = @ \o s.operations,
                      !.operations = <<>>]
       ELSE [s EXCEPT !.updating = TRUE,
                      !.ops = r.ops,
                      !.performed = @ \o s.operations,
                      !.stores = Append(@, [variable |-> Mutate(s.variable.value, r.registry),
                                            updatedRegistry |-> r.registry,
                                            applied |-> s.operations,
                                            future |-> Pending]),
                      !.operations = <<>>]

\* An update() that hands the queue to the store call and keeps it as well.
updateKeepsQueue(s) ==
  IF s.updating \/ s.error.some
  THEN [s EXCEPT !.aborted = TRUE]
  ELSE IF s.operations = <<>>
  THEN s
  ELSE IF ~s.registry.some \/ ~s.variable.some
  THEN [s EXCEPT !.updating = TRUE, !.aborted = TRUE]
  ELSE LET r == PerformAll(s.operations, s.ops, s.registry.value) IN
       [s EXCEPT !.updating = TRUE,
                 !.ops = r.ops,
                 !.performed = @ \o s.operations,
                 !.stores = Append(@, [variable |-> Mutate(s.variable.value, r.registry),
                                       updatedRegistry |-> r.registry,
                                       applied |-> s.operations,
                                       future |-> Pending])]

update(s) ==
  IF s.updating \/ s.error.some
  THEN [s EXCEPT !.aborted = TRUE]
  ELSE IF s.operations = <<>>
  THEN s
  ELSE IF ~s.registry.some \/ ~s.variable.some
  THEN [s EXCEPT !.updating = TRUE, !.aborted = TRUE]
  ELSE LET r == PerformAll(s.operations, s.ops, s.registry.value) IN
       [s EXCEPT !.updating = TRUE,
                 !.ops = r.ops,
                 !.performed = @ \o s.operations,
                 !.stores = Append(@, [variable |-> Mutate(s.variable.value, r.registry),
                                       updatedRegistry |-> r.registry,
                                       applied |-> s.operations,
                                       future |-> Pending]),
                 !.operations = <<>>]

\* The future the caller holds fails with what _apply returns as Failure.
ReturnFailure(s, n, message) ==
  [s EXCEPT !.ops[n] = Complete(@, Failed(message)),
            !.signalled = Append(@, n)]

\* An _apply that starts a batch although one is in flight.
_applyAlwaysUpdates(s, n) ==
  IF s.error.some
  THEN ReturnFailure(s, n, s.error.value)
  ELSE update([s EXCEPT !.operations = Append(@, n),
                        !.accepted = Append(@, n)])

\* An _apply that queues the operation at the front.
_applyPushFront(s, n) ==
  IF s.error.some
  THEN ReturnFailure(s, n, s.error.value)
  ELSE LET q == [s EXCEPT !.operations = <<n>> \o @,
                          !.accepted = Append(@, n)] IN
       IF ~q.updating THEN update(q) ELSE q

_apply(s, n) ==
  IF s.error.some
  THEN ReturnFailure(s, n, s.error.value)
  ELSE LET q == [s EXCEPT !.operations = Append(@, n),
                          !.accepted = Append(@, n)] IN
       IF ~q.updating THEN update(q) ELSE q

RECURSIVE FailAll(_, _, _)
FailAll(applied, os, message) ==
  IF applied = <<>>
  THEN os
  ELSE FailAll(Tail(applied),
               [os EXCEPT ![Head(applied)] = OperationFail(@, message)],
               message)

RECURSIVE SetAll(_, _)
SetAll(applied, os) ==
  IF applied = <<>>
  THEN os
  ELSE SetAll(Tail(applied), [os EXCEPT ![Head(applied)] = OperationSet(@)])

UpdatePrefix == <<"Failed to update registry: ">>

\* A message that names a discarded store a version mismatch and the reverse.
FailureMessageSwapped(store) ==
  UpdatePrefix \o
    (IF store.state = "failed" THEN store.message
     ELSE IF store.state = "discarded" THEN <<"version mismatch">>
     ELSE <<"discarded">>)

FailureMessage(store) ==
  UpdatePrefix \o
    (IF store.state = "failed" THEN store.message
     ELSE IF store.state = "discarded" THEN <<"discarded">>
     ELSE <<"version mismatch">>)

\* A test of the store that forgets the completion without a variable.
StoreDidNotSucceedUnlessReady(store) == store.state # "ready"

\* !store.isReady() || store->isNone()
StoreDidNotSucceed(store) == store.state # "ready" \/ ~store.value.some

\* An _update that keeps the working copy of a batch whose store did not
\* succeed.
_updateInstallsOnFailure(s, i) ==
  LET call == s.stores[i]
      s1 == [s EXCEPT !.updating = FALSE]
  IN
  IF StoreDidNotSucceed(call.future)
  THEN LET message == FailureMessage(call.future) IN
       [s1 EXCEPT !.registry = Some(call.updatedRegistry),
                  !.ops = FailAll(call.applied, @, message),
                  !.signalled = @ \o call.applied,
                  !.error = Some(message)]
  ELSE LET s2 == [s1 EXCEPT !.variable = call.future.value,
                            !.registry = Some(call.updatedRegistry),
                            !.ops = SetAll(call.applied, @),
                            !.signalled = @ \o call.applied]
       IN IF s2.operations # <<>> THEN update(s2) ELSE s2

\* An _update that, after failing the operations of the batch, sets them too.
_updateSetsAfterFail(s, i) ==
  LET call == s.stores[i]
      s1 == [s EXCEPT !.updating = FALSE]
  IN
  IF StoreDidNotSucceed(call.future)
  THEN LET message == FailureMessage(call.future) IN
       [s1 EXCEPT !.ops = SetAll(call.applied, FailAll(call.applied, @, message)),
                  !.signalled = @ \o call.applied,
                  !.error = Some(message)]
  ELSE LET s2 == [s1 EXCEPT !.variable = call.future.value,
                            !.registry = Some(call.updatedRegistry),
                            !.ops = SetAll(call.applied, @),
                            !.signalled = @ \o call.applied]
       IN IF s2.operations # <<>> THEN update(s2) ELSE s2

\* An _update that leaves the operations queued meanwhile to the next _apply.
_updateWithoutRestart(s, i) ==
  LET call == s.stores[i]
      s1 == [s EXCEPT !.updating = FALSE]
  IN
  IF StoreDidNotSucceed(call.future)
  THEN LET message == FailureMessage(call.future) IN
       [s1 EXCEPT !.ops = FailAll(call.applied, @, message),
                  !.signalled = @ \o call.applied,
                  !.error = Some(message)]
  ELSE [s1 EXCEPT !.variable = call.future.value,
                  !.registry = Some(call.updatedRegistry),
                  !.ops = SetAll(call.applied, @),
                  !.signalled = @ \o call.applied]

_update(s, i) ==
  LET call == s.stores[i]
      s1 == [s EXCEPT !.updating = FALSE]
  IN
  IF StoreDidNotSucceed(call.future)
  THEN LET message == FailureMessage(call.future) IN
       [s1 EXCEPT !.ops = FailAll(call.applied, @, message),
                  !.signalled = @ \o call.applied,
                  !.error = Some(message)]
  ELSE LET s2 == [s1 EXCEPT !.variable = call.future.value,
                            !.registry = Some(call.updatedRegistry),
                            !.ops = SetAll(call.applied, @),
                            !.signalled = @ \o call.applied]
       IN IF s2.operations # <<>> THEN update(s2) ELSE s2

\* What a recover() call returns, for the history.
Returned(s) ==
  [future |-> s.recovered,
   committed |-> s.variable.some /\ s.variable.value.version > 0]

\* A recover() that fetches on every call.
recoverFetchesAgain(s) ==
  LET s1 == [s EXCEPT !.fetches = Append(@, [future |-> Pending,
                                             recovered |-> Pending,
                                             waiters |-> <<>>]),
                      !.recovered = Len(s.fetches) + 1]
  IN [s1 EXCEPT !.returned = @ \cup {Returned(s1)}]

\* recover(): one fetch, chained to the continuation that installs the result.
recover(s) ==
  LET s1 == IF s.recovered = 0
            THEN [s EXCEPT !.fetches = Append(@, [future |-> Pending,
                                                  recovered |-> Pending,
                                                  waiters |-> <<>>]),
                           !.recovered = Len(s.fetches) + 1]
            ELSE s
  IN [s1 EXCEPT !.returned = @ \cup {Returned(s1)}]

\* A recovery that completes without running the calls chained on it.
recoveryDropsWaiters(s, i) ==
  LET f == s.fetches[i] IN
  [s EXCEPT !.registry = Some(f.future.value.value),
            !.variable = Some(f.future.value),
            !.fetches[i].recovered = Ready(TRUE),
            !.fetches[i].waiters = <<>>]

\* The continuation of recover(), run by the actor once the fetch is ready;
\* completing `recovered` dispatches the _apply calls chained on it, in order.
recovery(s, i) ==
  LET f == s.fetches[i] IN
  [s EXCEPT !.registry = Some(f.future.value.value),
            !.variable = Some(f.future.value),
            !.fetches[i].recovered = Ready(TRUE),
            !.fetches[i].waiters = <<>>,
            !.mailbox = @ \o [k \in 1..Len(f.waiters) |-> Event("_apply", f.waiters[k])]]

\* An apply() that asks for a completed recovery, not for an invoked one.
applyRequiresReady(s, n) ==
  IF s.recovered = 0 \/ s.fetches[s.recovered].recovered.state = "pending"
  THEN ReturnFailure(s, n, PreconditionMessage)
  ELSE LET f == s.fetches[s.recovered].recovered IN
       IF f.state = "ready"
       THEN [s EXCEPT !.mailbox = Append(@, Event("_apply", n))]
       ELSE [s EXCEPT !.ops[n] = Complete(@, f), !.signalled = Append(@, n)]

apply(s, n) ==
  IF s.recovered = 0
  THEN ReturnFailure(s, n, PreconditionMessage)
  ELSE LET f == s.fetches[s.recovered].recovered IN
       IF f.state = "pending"
       THEN [s EXCEPT !.fetches[s.recovered].waiters = Append(@, n)]
       ELSE IF f.state = "ready"
       THEN [s EXCEPT !.mailbox = Append(@, Event("_apply", n))]
       ELSE [s EXCEPT !.ops[n] = Complete(@, f), !.signalled = Append(@, n)]

-----------------------------------------------------------------------------
(* Actions *)

\* A recover() dispatched by GenericRegistrar::recover is handled.
Recover ==
  /\ ~aborted
  /\ Becomes(recover(State))

\* An apply(operation) dispatched by GenericRegistrar::apply is handled.
Apply(kind, id) ==
  /\ ~aborted
  /\ Len(ops) < MaxOps
  /\ Becomes(apply([State EXCEPT !.ops = Append(@, NewOperation(kind, id))],
                   Len(ops) + 1))

HandleRecovery ==
  /\ Taken("recovery")
  /\ Becomes(recovery(AfterTake, Head(mailbox).arg))

Handle_apply ==
  /\ Taken("_apply")
  /\ Becomes(_apply(AfterTake, Head(mailbox).arg))

Handle_update ==
  /\ Taken("_update")
  /\ Becomes(_update(AfterTake, Head(mailbox).arg))

\* Storage answers fetch call i.
FetchOutcomes ==
  {Ready([value |-> reg, version |-> 0]) : reg \in RecoveredRegistries}
    \cup {Failed(StorageFailure), Discarded}

RECURSIVE CompleteAll(_, _, _)
CompleteAll(waiters, os, outcome) ==
  IF waiters = <<>>
  THEN os
  ELSE CompleteAll(Tail(waiters),
                   [os EXCEPT ![Head(waiters)] = Complete(@, outcome)],
                   outcome)

FetchCompletes(i, outcome) ==
  /\ ~aborted
  /\ fetches[i].future.state = "pending"
  /\ LET s == [State EXCEPT !.fetches[i].future = outcome] IN
     IF outcome.state = "ready"
     THEN Becomes([s EXCEPT !.mailbox = Append(@, Event("recovery", i))])
     ELSE Becomes([s EXCEPT !.fetches[i].recovered = outcome,
                            !.fetches[i].waiters = <<>>,
                            !.ops = CompleteAll(fetches[i].waiters, @, outcome),
                            !.signalled = @ \o fetches[i].waiters])

\* Storage answers store call i: the written variable, no variable (the
\* version did not match), a failure, or a discard.
StoreOutcomes(call) ==
  {Ready(Some([call.variable EXCEPT !.version = @ + 1])), Ready(None),
   Failed(StorageFailure), Discarded}

StoreCompletes(i, outcome) ==
  /\ ~aborted
  /\ stores[i].future.state = "pending"
  /\ Becomes([State EXCEPT !.stores[i].future = outcome,
                           !.mailbox = Append(@, Event("_update", i))])

Init ==
  /\ recovered = 0
  /\ registry = None
  /\ variable = None
  /\ error = None
  /\ operations = <<>>
  /\ updating = FALSE
  /\ ops = <<>>
  /\ mailbox = <<>>
  /\ fetches = <<>>
  /\ stores = <<>>
  /\ aborted = FALSE
  /\ returned = {}
  /\ accepted = <<>>
  /\ performed = <<>>
  /\ signalled = <<>>

Next ==
  \/ Recover
  \/ \E kind \in Kinds, id \in Ids : Apply(kind, id)
  \/ HandleRecovery
  \/ Handle_apply
  \/ Handle_update
  \/ \E i \in DOMAIN fetches, outcome \in FetchOutcomes : FetchCompletes(i, outcome)
  \/ \E i \in DOMAIN stores : \E outcome \in StoreOutcomes(stores[i]) :
       StoreCompletes(i, outcome)

Spec == Init /\ [][Next]_vars

\* The process handles the event at the head of its mailbox.
Handle == HandleRecovery \/ Handle_apply \/ Handle_update

\* Storage answers a call with a result: the fetch with a variable, the store
\* with the updated variable.
Answer ==
  \/ \E i \in DOMAIN fetches, reg \in RecoveredRegistries :
       FetchCompletes(i, Ready([value |-> reg, version |-> 0]))
  \/ \E i \in DOMAIN stores :
       StoreCompletes(i, Ready(Some([stores[i].variable EXCEPT !.version = @ + 1])))

NoFailureNext ==
  \/ Recover
  \/ \E kind \in Kinds, id \in Ids : Apply(kind, id)
  \/ Handle
  \/ Answer

\* The process handles every event dispatched to it and storage answers
\* every call; callers may stop calling at any time.
NoFailureSpec == Init /\ [][NoFailureNext]_vars /\ WF_vars(Handle \/ Answer)

\* The same with fewer operations submitted, to follow each of them to its
\* end.
ApplyFew(kind, id) ==
  /\ Len(ops) < MaxProgressOps
  /\ Apply(kind, id)

ProgressNext ==
  \/ Recover
  \/ \E kind \in Kinds, id \in Ids : ApplyFew(kind, id)
  \/ Handle
  \/ Answer

ProgressSpec == Init /\ [][ProgressNext]_vars /\ WF_vars(Handle \/ Answer)

-----------------------------------------------------------------------------
(* What the histories say *)

\* The fetch behind `recovered` handed back the empty registry.
RecoveredEmpty ==
  /\ recovered # 0
  /\ fetches[recovered].future.state = "ready"
  /\ fetches[recovered].future.value.value = <<>>

\* Store call i completed with an updated handle.
Succeeded(i) == stores[i].future.state = "ready" /\ stores[i].future.value.some

\* The registry storage holds after the successful store call i.
PersistedBy(i) == stores[i].future.value.value.value

\* _update has run for store call i.
Handled(i) ==
  /\ stores[i].future.state # "pending"
  /\ \A k \in DOMAIN mailbox : mailbox[k] # Event("_update", i)

\* Store call i completed failed, discarded, or without an updated handle.
NotUpdated(i) == stores[i].future.state # "pending" /\ ~Succeeded(i)

\* The step runs the deferred call of this type at the head of the mailbox.
Handles(type) == Taken(type) /\ mailbox' = Tail(mailbox)

\* The operations of the batches up to store call i, in batch order.
RECURSIVE Batches(_)
Batches(i) == IF i = 0 THEN <<>> ELSE Batches(i - 1) \o stores[i].applied

\* The store call whose batch holds operation n, 0 when there is none.
BatchOf(n) ==
  IF \E i \in DOMAIN stores : \E k \in DOMAIN stores[i].applied : stores[i].applied[k] = n
  THEN CHOOSE i \in DOMAIN stores : \E k \in DOMAIN stores[i].applied : stores[i].applied[k] = n
  ELSE 0

Range(seq) == {seq[k] : k \in DOMAIN seq}

\* Position of n in seq, 0 when absent.
IndexIn(seq, n) ==
  IF n \in Range(seq) THEN CHOOSE k \in DOMAIN seq : seq[k] = n ELSE 0

\* operator() was called on n and perform returned an error.
Rejected(n) == ops[n].performs > 0 /\ ~ops[n].success

\* The identities left by replaying the operations of seq on the set S: an
\* Admit of a present identity and a Remove of an absent one are skipped.
RECURSIVE ReplayIds(_, _)
ReplayIds(seq, S) ==
  IF seq = <<>>
  THEN S
  ELSE LET op == ops[Head(seq)] IN
       ReplayIds(Tail(seq),
                 IF op.kind = "Admit"
                 THEN (IF op.id \in S THEN S ELSE S \cup {op.id})
                 ELSE (IF op.id \in S THEN S \ {op.id} ELSE S))

\* The batch of operation n was stored with an updated handle and _update
\* has run for it.
Committed(n) ==
  /\ BatchOf(n) # 0
  /\ Succeeded(BatchOf(n))
  /\ Handled(BatchOf(n))

\* Operation n left the registry as it found it: the working copy, and, when
\* n closes its batch, the registry stored and the one kept in memory.
LeftUnchanged(n) ==
  LET i == BatchOf(n) IN
  /\ ops[n].after = ops[n].before
  /\ n = stores[i].applied[Len(stores[i].applied)] =>
       /\ stores[i].updatedRegistry = ops[n].before
       /\ PersistedBy(i) = ops[n].before
       /\ i = Len(stores) => registry = Some(ops[n].before)

\* m and n admit the same identity, absent when m was performed, m before n,
\* with no Remove of it performed in between.
AdmittedTwice(m, n) ==
  /\ ops[m].kind = "Admit" /\ ops[n].kind = "Admit" /\ ops[m].id = ops[n].id
  /\ m \in Range(performed) /\ n \in Range(performed)
  /\ IndexIn(performed, m) < IndexIn(performed, n)
  /\ ops[m].id \notin IdsOf(ops[m].before)
  /\ \A k \in IndexIn(performed, m)..IndexIn(performed, n) :
       ~(ops[performed[k]].kind = "Remove" /\ ops[performed[k]].id = ops[m].id)

\* n removes an identity that was absent when n was performed.
RemovedUnknown(n) ==
  /\ ops[n].kind = "Remove"
  /\ n \in Range(performed)
  /\ ops[n].id \notin IdsOf(ops[n].before)

\* The step is apply() handling a new operation, which is Len(ops').
Applies == Len(ops') = Len(ops) + 1

\* The state of the future recover() returned, "none" before recover().
RecoveredState ==
  IF recovered = 0 THEN "none" ELSE fetches[recovered].recovered.state

\* The operations held on the future of recover().
Waiting == UNION {Range(fetches[i].waiters) : i \in DOMAIN fetches}

\* Nothing is left to do: the mailbox is empty and storage has answered
\* every call.  Under NoFailureSpec every behaviour reaches such a state once
\* the callers stop, each handler and each answer using up a call, an event
\* or an operation.
Quiet ==
  /\ mailbox = <<>>
  /\ \A i \in DOMAIN fetches : fetches[i].future.state # "pending"
  /\ \A i \in DOMAIN stores : stores[i].future.state # "pending"

-----------------------------------------------------------------------------
(* Claims *)

\* C1: starting from an empty recovered registry, the registry persisted by
\* each successful store holds exactly the identities obtained by replaying on
\* the empty set, in acceptance order, the operations of that batch and of the
\* batches before it, rejected operations skipped.
C1_PersistedIsReplay ==
  RecoveredEmpty =>
    \A i \in DOMAIN stores :
      Succeeded(i) =>
        LET batch == Batches(i) IN
        /\ Len(batch) <= Len(accepted)
        /\ batch = SubSeq(accepted, 1, Len(batch))
        /\ IdsOf(PersistedBy(i)) = ReplayIds(batch, {})

\* A second batch was stored after an operation was rejected and another one
\* left a record.
C1_Witness ==
  /\ RecoveredEmpty
  /\ \E i \in DOMAIN stores :
       /\ i >= 2
       /\ Succeeded(i)
       /\ PersistedBy(i) # <<>>
       /\ \E n \in Range(Batches(i)) : Rejected(n)

\* Once _update has run for a store that brought no updated handle, the error
\* is recorded and every operation of the batch is failed with it.
C2_BatchFailed ==
  \A i \in DOMAIN stores :
    (Handled(i) /\ NotUpdated(i)) =>
      /\ error.some
      /\ \A n \in Range(stores[i].applied) : ops[n].future = Failed(error.value)

\* With the error recorded: it stays, no store call is issued, and an _apply
\* that runs fails its operation with the recorded error and queues nothing.
C2_ErrorStays ==
  error.some =>
    /\ error' = error
    /\ Len(stores') = Len(stores)
    /\ Handles("_apply") =>
         /\ ops'[Head(mailbox).arg].future = Failed(error.value)
         /\ operations' = operations

\* C2: a store that completes failed, discarded or without an updated handle
\* fails every operation of its batch, every operation whose _apply runs
\* afterwards fails with the same stored error, and no store call is issued
\* again.
C2_FailedIsTerminal == [](C2_BatchFailed) /\ [][C2_ErrorStays]_vars

\* A store met a version conflict, its batch was failed, and an operation
\* that arrived afterwards was failed by _apply with the same error.
C2_Witness ==
  /\ error.some
  /\ \E i \in DOMAIN stores :
       /\ Handled(i)
       /\ stores[i].future = Ready(None)
       /\ \E n \in DOMAIN ops :
            /\ n \notin Range(accepted)
            /\ ops[n].future = Failed(error.value)

\* C3: when a commit fails, the operations waiting in the queue at that
\* moment are failed with the stored error too, so none stays pending.
C3_QueuedFailedToo ==
  error.some =>
    \A k \in DOMAIN operations : ops[operations[k]].future = Failed(error.value)

C6_FailsUntilResolved ==
  [][(Applies /\ RecoveredState \in {"none", "pending"}) =>
       /\ ops'[Len(ops')].future = Failed(PreconditionMessage)
       /\ operations' = operations]_vars

\* An apply() handled before recover() was invoked fails at once with the
\* precondition error and changes nothing else; one handled while the fetch
\* is outstanding is held, neither failed nor queued; one handled after
\* recovery is dispatched to _apply.
C6_ApplyStep ==
  Applies =>
    LET n == Len(ops') IN
    /\ RecoveredState = "none" =>
         /\ ops'[n].future = Failed(PreconditionMessage)
         /\ UNCHANGED <<recovered, registry, variable, error, operations,
                        updating, mailbox, fetches, stores, accepted>>
    /\ RecoveredState = "pending" =>
         /\ ops'[n].future = Pending
         /\ n \in Waiting'
         /\ UNCHANGED <<operations, mailbox, accepted>>
    /\ RecoveredState = "ready" =>
         /\ ops'[n].future = Pending
         /\ mailbox' = Append(mailbox, Event("_apply", n))

\* Without a recorded error _apply queues the operation.
C6_Queued ==
  (Handles("_apply") /\ ~error.some) =>
    accepted' = Append(accepted, Head(mailbox).arg)

\* An operation failed on the precondition was never queued nor performed; a
\* held operation is pending; a committed operation resolved with its result.
C6_Outcome ==
  \A n \in DOMAIN ops :
    /\ ops[n].future = Failed(PreconditionMessage) =>
         n \notin Range(accepted) /\ ops[n].performs = 0
    /\ n \in Waiting => ops[n].future = Pending /\ n \notin Range(accepted)
    /\ Committed(n) => ops[n].future = Ready(ops[n].success)

\* C6: an apply() handled before recover() was invoked fails immediately with
\* the precondition error and is not queued; one handled after recover() was
\* invoked and before the fetch completed is held, not failed; the same
\* operation submitted after recover() resolved is queued and commits.
C6_PreconditionOnlyBeforeRecover ==
  [](C6_Outcome) /\ [][C6_ApplyStep /\ C6_Queued]_vars

\* An operation failed on the precondition, and the same operation,
\* submitted again after recovery, committed with a mutation.
C6_Witness ==
  \E m, n \in DOMAIN ops :
    /\ m < n
    /\ ops[m].kind = ops[n].kind /\ ops[m].id = ops[n].id
    /\ ops[m].future = Failed(PreconditionMessage)
    /\ Committed(n)
    /\ ops[n].future = Ready(TRUE)

\* Operations m and m + 1 admit two different identities, neither admitted by
\* an earlier operation, after recover() was invoked and handed back the
\* empty registry.
C7_BackToBack(m) ==
  /\ m + 1 <= Len(ops)
  /\ RecoveredEmpty
  /\ ops[m].kind = "Admit" /\ ops[m + 1].kind = "Admit"
  /\ ops[m].id # ops[m + 1].id
  /\ ops[m].future # Failed(PreconditionMessage)
  /\ ops[m + 1].future # Failed(PreconditionMessage)
  /\ \A k \in 1..(m - 1) :
       ~(ops[k].kind = "Admit" /\ ops[k].id \in {ops[m].id, ops[m + 1].id})

C7_BothTrue(m) ==
  /\ m + 1 <= Len(ops)
  /\ ops[m].future = Ready(TRUE)
  /\ ops[m + 1].future = Ready(TRUE)

\* Once the second is committed, both sit in one batch or in two consecutive
\* ones, and the registry that commit persisted holds both identities (when
\* the batch ends with the second operation).
C7_BothPersisted ==
  \A m \in 1..(MaxOps - 1) :
    (C7_BackToBack(m) /\ Committed(m + 1)) =>
      LET i == BatchOf(m + 1) IN
      /\ BatchOf(m) \in {i - 1, i}
      /\ C7_BothTrue(m)
      /\ stores[i].applied[Len(stores[i].applied)] = m + 1 =>
           {ops[m].id, ops[m + 1].id} \subseteq IdsOf(PersistedBy(i))

\* Both have resolved true by the time nothing is left to do.
C7_BothResolved ==
  \A m \in 1..(MaxOps - 1) : (Quiet /\ C7_BackToBack(m)) => C7_BothTrue(m)

\* C7: after recovery of an empty registry and with no storage failure,
\* Admit A and Admit B submitted back-to-back both resolve true, at the
\* latest when the process has nothing left to do, and the registry
\* persisted by the commit of the second holds A and B, whether they land in
\* one batch or in two consecutive batches.
C7_BackToBackAdmitted == C7_BothPersisted /\ C7_BothResolved

\* The same, as a property of the fair behaviours: both eventually resolve
\* true.
C7_EventuallyBothTrue ==
  \A m \in 1..(MaxOps - 1) : C7_BackToBack(m) ~> C7_BothTrue(m)

\* Both admits resolved true out of one batch.
C7_Witness ==
  \E m \in 1..(MaxOps - 1) :
    /\ C7_BackToBack(m)
    /\ C7_BothTrue(m)
    /\ BatchOf(m) = BatchOf(m + 1)
    /\ registry = Some(<<ops[m].id, ops[m + 1].id>>)

\* The operations of seq are in the order apply() handled them, which is the
\* order of their numbers.
InHandlingOrder(seq) ==
  \A j, k \in DOMAIN seq : j < k => seq[j] < seq[k]

Queued(n) == n \in Range(accepted)

\* C8: FIFO.  Operations are queued, performed and signalled in the order
\* apply() handled them; the performed operations are the first of the
\* queued ones, and so are the signalled ones among the queued, so that none
\* is performed or signalled ahead of one queued before it; and the signalled
\* operations are those whose future is completed.
C8_Fifo ==
  /\ InHandlingOrder(accepted)
  /\ InHandlingOrder(performed)
  /\ InHandlingOrder(signalled)
  /\ Len(performed) <= Len(accepted)
  /\ performed = SubSeq(accepted, 1, Len(performed))
  /\ LET done == SelectSeq(signalled, Queued) IN
     /\ Len(done) <= Len(performed)
     /\ done = SubSeq(performed, 1, Len(done))
  /\ \A n \in DOMAIN ops :
       n \in Range(signalled) <=> ops[n].future.state # "pending"

\* Two operations committed by different batches, and an earlier one failed
\* on the precondition, all signalled in the order they were handled.
C8_Witness ==
  \E w, x, y \in DOMAIN ops :
    /\ w < x /\ x < y
    /\ ops[w].future = Failed(PreconditionMessage)
    /\ Committed(x) /\ Committed(y)
    /\ BatchOf(x) < BatchOf(y)
    /\ signalled = <<w, x, y>>

\* Every recover() returned the future of the one fetch.
C9_OneFetch ==
  /\ Len(fetches) <= 1
  /\ \A r \in returned : r.future = 1

\* A recover() leaves the registry and the handle alone, and once `recovered`
\* is set it changes nothing but the history of what it returned.
C9_RecoverStep ==
  returned' # returned =>
    /\ registry' = registry
    /\ variable' = variable
    /\ recovered # 0 =>
         UNCHANGED <<recovered, fetches, error, operations, updating, ops,
                     mailbox, stores>>

\* C9: over any number of recover() calls at most one fetch is issued, every
\* call returns the same future, and a recover() after recovery completed
\* leaves the registry and the handle as the commits made them.
C9_RecoverIdempotent == [](C9_OneFetch) /\ [][C9_RecoverStep]_vars

\* recover() was called again after a batch was committed, and the registry
\* still holds what was committed.
C9_Witness ==
  /\ \E r \in returned : r.committed
  /\ Len(fetches) = 1
  /\ registry.some /\ variable.some
  /\ registry.value = variable.value.value
  /\ registry.value # fetches[1].future.value.value

\* Every operation of a batch is performed once, each on the working copy the
\* one before it left, starting from the committed registry, and the result
\* is what the store call carries.
C10_WholeBatch ==
  \A i \in DOMAIN stores :
    LET batch == stores[i].applied IN
    /\ batch # <<>>
    /\ \A k \in DOMAIN batch :
         /\ ops[batch[k]].performs = 1
         /\ k > 1 => ops[batch[k]].before = ops[batch[k - 1]].after
    /\ stores[i].updatedRegistry = ops[batch[Len(batch)]].after
    /\ stores[i].variable.value = stores[i].updatedRegistry

\* C10: a rejection stays with its operation.  The batch is performed whole
\* and stored once, the operations that were not rejected resolve true when
\* the store succeeds, and an error is recorded only for a store that did
\* not bring an updated handle.
C10_RejectionIsLocal ==
  /\ C10_WholeBatch
  /\ \A n \in DOMAIN ops :
       (Committed(n) /\ ~Rejected(n)) => ops[n].future = Ready(TRUE)
  /\ error.some => \E i \in DOMAIN stores : Handled(i) /\ NotUpdated(i)

\* A batch whose first operation was rejected committed the mutation of its
\* second, which resolved true, and no error is recorded.
C10_Witness ==
  \E i \in DOMAIN stores :
    /\ Len(stores[i].applied) >= 2
    /\ Succeeded(i) /\ Handled(i)
    /\ Rejected(stores[i].applied[1])
    /\ ops[stores[i].applied[1]].future = Ready(FALSE)
    /\ ops[stores[i].applied[2]].future = Ready(TRUE)
    /\ ops[stores[i].applied[2]].after # ops[stores[i].applied[2]].before
    /\ ~error.some

\* C11: an operation that was queued is performed at most once and its
\* completion is signalled at most once, by set() or by fail(), and only
\* after it was performed; its future is completed exactly when it was
\* signalled.  An operation that was never queued is neither performed nor
\* signalled.
C11_AtMostOnce ==
  \A n \in DOMAIN ops :
    /\ ops[n].performs <= 1
    /\ ops[n].signals <= 1
    /\ ops[n].signals = 1 => ops[n].performs = 1
    /\ n \in Range(accepted) =>
         (ops[n].signals = 1 <=> ops[n].future.state # "pending")
    /\ n \notin Range(accepted) => ops[n].performs = 0 /\ ops[n].signals = 0
    /\ ops[n].performs = Cardinality({k \in DOMAIN performed : performed[k] = n})

\* One queued operation was completed by set() and a later one by fail(),
\* each performed once and signalled once.
C11_Witness ==
  \E m, n \in Range(accepted) :
    /\ ops[m].future.state = "ready"
    /\ ops[n].future.state = "failed"
    /\ ops[m].performs = 1 /\ ops[m].signals = 1
    /\ ops[n].performs = 1 /\ ops[n].signals = 1

NoDuplicates(reg) == \A j, k \in DOMAIN reg : reg[j] = reg[k] => j = k

\* Every registry that storage handed back on fetch has distinct identities.
RecoveredUnique ==
  \A i \in DOMAIN fetches :
    fetches[i].future.state = "ready" =>
      NoDuplicates(fetches[i].future.value.value)

\* C12: when the recovered registry has no two records with one identity,
\* neither has the registry in memory, nor the value of the handle, nor any
\* working copy an operation left, nor any registry handed to store, nor any
\* registry persisted.
C12_UniqueIdentities ==
  RecoveredUnique =>
    /\ registry.some => NoDuplicates(registry.value)
    /\ variable.some => NoDuplicates(variable.value.value)
    /\ \A n \in DOMAIN ops : NoDuplicates(ops[n].after)
    /\ \A i \in DOMAIN stores :
         /\ NoDuplicates(stores[i].updatedRegistry)
         /\ NoDuplicates(stores[i].variable.value)
         /\ Succeeded(i) => NoDuplicates(PersistedBy(i))

\* On a recovered registry with one record, an Admit of its identity was
\* rejected and the committed registry holds two records.
C12_Witness ==
  /\ recovered # 0
  /\ fetches[recovered].future.state = "ready"
  /\ fetches[recovered].future.value.value # <<>>
  /\ \E i \in DOMAIN stores :
       /\ Succeeded(i) /\ Handled(i)
       /\ Len(PersistedBy(i)) = 2
       /\ registry = Some(PersistedBy(i))
       /\ \E n \in Range(Batches(i)) : ops[n].kind = "Admit" /\ Rejected(n)

\* The store calls _update has not run for yet.
Unhandled == {i \in DOMAIN stores : ~Handled(i)}

\* C13: no CHECK of update() fires, at most one store call is outstanding,
\* updating is true exactly while the _update of a store call is still to
\* run, no error is recorded meanwhile, and a store call is only issued with
\* the registry and the handle set.
C13_OneStoreAtATime ==
  /\ ~aborted
  /\ Cardinality(Unhandled) <= 1
  /\ updating <=> Unhandled # {}
  /\ updating => ~error.some
  /\ stores # <<>> => registry.some /\ variable.some

\* A second store call is outstanding and an operation was queued behind it.
C13_Witness ==
  /\ updating
  /\ operations # <<>>
  /\ Len(stores) >= 2
  /\ stores[Len(stores)].future.state = "pending"
  /\ Unhandled = {Len(stores)}

\* An operation waiting in the queue belongs to no batch: it is not
\* performed, not signalled, and its future is pending.  Every batch after
\* the first works on the registry the batch before it committed.
C14_QueuedApart ==
  /\ \A k \in DOMAIN operations :
       LET n == operations[k] IN
       /\ BatchOf(n) = 0
       /\ ops[n].performs = 0
       /\ ops[n].signals = 0
       /\ ops[n].future = Pending
  /\ \A i \in DOMAIN stores :
       i > 1 =>
         /\ Succeeded(i - 1)
         /\ ops[stores[i].applied[1]].before = stores[i - 1].updatedRegistry
         /\ ops[stores[i].applied[1]].before = PersistedBy(i - 1)

\* An _apply that runs while a store is in flight only queues its operation;
\* a step that starts a store hands it the whole queue and leaves the queue
\* empty; the _update of a store call signals the operations of its batch and
\* no other.
C14_BatchStep ==
  /\ (Handles("_apply") /\ updating) =>
       /\ operations' = Append(operations, Head(mailbox).arg)
       /\ stores' = stores
       /\ ops' = ops
       /\ performed' = performed
       /\ signalled' = signalled
  /\ Len(stores') # Len(stores) =>
       /\ Len(stores') = Len(stores) + 1
       /\ operations' = <<>>
       /\ stores'[Len(stores')].applied =
            (IF Handles("_apply")
             THEN Append(operations, Head(mailbox).arg)
             ELSE operations)
       /\ performed' = performed \o stores'[Len(stores')].applied
  /\ Handles("_update") =>
       LET i == Head(mailbox).arg IN
       /\ signalled' = signalled \o stores[i].applied
       /\ \A n \in Range(operations) :
            /\ n \notin Range(stores[i].applied)
            /\ ops'[n].signals = 0
            /\ ops'[n].future = Pending

\* C14: batch isolation.  An operation queued while a store is in flight is
\* not performed on the batch in flight, is not part of it and is not
\* signalled by its completion; the queue is empty right after update()
\* starts a store; the operation is performed in a later batch, whose working
\* copy starts from the registry the batch in flight committed.
C14_BatchIsolation == [](C14_QueuedApart) /\ [][C14_BatchStep]_vars

\* Two operations queued while the first store was in flight were committed
\* together by the second batch, on top of what the first committed.
C14_Witness ==
  \E i \in DOMAIN stores :
    /\ i > 1
    /\ Len(stores[i].applied) >= 2
    /\ Succeeded(i) /\ Handled(i)
    /\ ops[stores[i].applied[1]].before = PersistedBy(i - 1)
    /\ PersistedBy(i - 1) # fetches[1].future.value.value
    /\ PersistedBy(i) # PersistedBy(i - 1)

\* The registrar is never idle with operations queued and no error recorded.
C15_NeverIdle == ~(~updating /\ operations # <<>> /\ ~error.some)

\* An _update that installs a commit while operations are queued starts the
\* next batch in the same step.
C15_Restart ==
  (Handles("_update") /\ operations # <<>> /\ ~error'.some) =>
    /\ Len(stores') = Len(stores) + 1
    /\ stores'[Len(stores')].applied = operations
    /\ updating'
    /\ operations' = <<>>

\* Operation n was performed once and its future is resolved.
C15_Resolved(n) ==
  /\ n \in DOMAIN ops
  /\ ops[n].performs = 1
  /\ ops[n].future = Ready(ops[n].success)

\* When nothing is left to do, every operation that was queued is resolved.
C15_QuietResolved ==
  Quiet => \A n \in Range(accepted) : C15_Resolved(n)

\* C15: progress without storage failure.  The registrar is never idle with
\* a non-empty queue and no error, a commit that finds operations queued
\* starts the next batch in the same handler, and every operation that was
\* queued is eventually performed and its future resolved.
C15_Progress ==
  /\ [](C15_NeverIdle /\ C15_QuietResolved)
  /\ [][C15_Restart]_vars
  /\ \A n \in 1..MaxProgressOps : (n \in Range(accepted)) ~> C15_Resolved(n)

\* Every operation callers submitted was queued and is resolved, the last
\* of them by a second batch on top of what the first committed, and nothing
\* is left to do.
C15_Witness ==
  /\ Quiet
  /\ Len(ops) = MaxProgressOps
  /\ Len(stores) = 2
  /\ ops[MaxProgressOps].before = PersistedBy(1)
  /\ PersistedBy(2) # PersistedBy(1)
  /\ \A n \in DOMAIN ops : n \in Range(accepted) /\ C15_Resolved(n)

\* The step runs the continuation of recover(), which completes the future
\* recover() returned.
Recovers ==
  /\ Taken("recovery")
  /\ fetches[Head(mailbox).arg].recovered = Pending
  /\ fetches'[Head(mailbox).arg].recovered = Ready(TRUE)

\* The registry is the value the handle carries, and after a store that
\* brought no updated handle both are what they were when its batch started.
C16_InStep ==
  /\ registry.some <=> variable.some
  /\ registry.some => registry.value = variable.value.value
  /\ \A i \in DOMAIN stores :
       (Handled(i) /\ NotUpdated(i)) =>
         /\ registry = Some(ops[stores[i].applied[1]].before)
         /\ variable = Some([stores[i].variable EXCEPT !.value = registry.value])

\* The registry and the handle are written by the recovery continuation,
\* once, and by the _update of a store that brought an updated handle, which
\* installs that handle and the registry stored with it; no other step
\* changes either, and none does once the error is recorded.
C16_WriteStep ==
  /\ (registry' # registry \/ variable' # variable) =>
       /\ variable' # variable
       /\ \/ Recovers /\ ~registry.some /\ ~variable.some
          \/ Handles("_update") /\ Succeeded(Head(mailbox).arg)
  /\ Handles("_update") =>
       LET i == Head(mailbox).arg IN
       IF Succeeded(i)
       THEN /\ variable' = stores[i].future.value
            /\ registry' = Some(stores[i].updatedRegistry)
       ELSE UNCHANGED <<registry, variable>>
  /\ error.some => UNCHANGED <<registry, variable>>

\* C16: the registry in memory and the versioned handle change only in the
\* handler of a successful store, and once at recovery; both are replaced
\* together and the registry is the value the handle carries; a failed,
\* discarded or conflicting store leaves both as they were before its batch
\* started, and they do not change after the error is recorded.
C16_ReplacedTogether == [](C16_InStep) /\ [][C16_WriteStep]_vars

\* After a commit, a batch that changed its working copy met a failed store:
\* the registry and the handle are still those of the commit.
C16_Witness ==
  /\ error.some
  /\ \E i \in DOMAIN stores :
       /\ i > 1
       /\ Handled(i) /\ NotUpdated(i)
       /\ stores[i].updatedRegistry # registry.value
       /\ registry = Some(PersistedBy(i - 1))
       /\ variable = stores[i - 1].future.value
       /\ registry.value # fetches[1].future.value.value

\* The message _update records for store call i, by the outcome of the call.
C17_Expected(i) ==
  IF stores[i].future.state = "failed"
  THEN <<"Failed to update registry: ">> \o stores[i].future.message
  ELSE IF stores[i].future.state = "discarded"
  THEN <<"Failed to update registry: ", "discarded">>
  ELSE <<"Failed to update registry: ", "version mismatch">>

\* C17: the recorded error is "Failed to update registry: " followed by the
\* failure message of the store, by "discarded" or by "version mismatch",
\* after the outcome of the store; every operation of the failed batch,
\* rejected by its own perform or not, is failed with that message, and so
\* is every operation that _apply fails afterwards.
C17_ErrorMessage ==
  /\ \A i \in DOMAIN stores :
       (Handled(i) /\ NotUpdated(i)) =>
         /\ error = Some(C17_Expected(i))
         /\ \A n \in Range(stores[i].applied) :
              ops[n].future = Failed(C17_Expected(i))
         /\ \A n \in DOMAIN ops :
              (/\ n \notin Range(accepted)
               /\ ops[n].future.state # "pending"
               /\ ops[n].future # Failed(PreconditionMessage)) =>
                ops[n].future = Failed(C17_Expected(i))
  /\ error.some => \E i \in DOMAIN stores : Handled(i) /\ NotUpdated(i)

\* A store met a version mismatch; the operation of its batch, which its own
\* perform had rejected, and an operation that came later both carry the
\* version mismatch message.
C17_Witness ==
  \E i \in DOMAIN stores :
    /\ Handled(i)
    /\ stores[i].future = Ready(None)
    /\ \E n \in Range(stores[i].applied) :
         /\ Rejected(n)
         /\ ops[n].future =
              Failed(<<"Failed to update registry: ", "version mismatch">>)
    /\ \E n \in DOMAIN ops :
         /\ n \notin Range(accepted)
         /\ ops[n].future =
              Failed(<<"Failed to update registry: ", "version mismatch">>)

\* The fetch of recover() completed failed or discarded.
RecoveryFailed ==
  /\ fetches # <<>>
  /\ fetches[1].future.state \in {"failed", "discarded"}

\* After a failed recovery there is the one fetch, whose outcome is the
\* outcome of the future every recover() returned; no operation is pending
\* or succeeded: each was failed on the precondition, before recover(), or
\* ended as the recovery did; none was queued, no event was dispatched and no
\* store call issued; registry and handle stay unset.
C18_NothingGoesOn ==
  RecoveryFailed =>
    /\ Len(fetches) = 1
    /\ recovered = 1
    /\ fetches[1].recovered = fetches[1].future
    /\ fetches[1].waiters = <<>>
    /\ \A r \in returned : r.future = 1 /\ ~r.committed
    /\ \A n \in DOMAIN ops :
         /\ ops[n].future \in {Failed(PreconditionMessage), fetches[1].future}
         /\ ops[n].performs = 0
    /\ accepted = <<>> /\ operations = <<>> /\ mailbox = <<>>
    /\ stores = <<>>
    /\ ~registry.some /\ ~variable.some /\ ~updating /\ ~error.some

\* From then on a recover() issues no fetch, and an apply() ends at once as
\* the recovery did and leaves the process as it was.
C18_LaterCalls ==
  RecoveryFailed =>
    /\ fetches' = fetches
    /\ recovered' = recovered
    /\ stores' = stores
    /\ Applies =>
         /\ ops'[Len(ops')].future = fetches[1].future
         /\ UNCHANGED <<operations, mailbox, accepted, registry, variable>>

\* C18: when the recovery fetch fails or is discarded, later recover() calls
\* return the same future, which is not ready, and issue no fetch; every
\* apply, handled before or after the outcome, ends not succeeded, none
\* stays pending and none is queued; and no store call is issued.
C18_FailedRecovery == [](C18_NothingGoesOn) /\ [][C18_LaterCalls]_vars

\* The fetch was discarded after recover() had been called and an operation
\* held; every operation callers submitted has ended, one of them failed on
\* the precondition and the others discarded.
C18_Witness ==
  /\ RecoveryFailed
  /\ fetches[1].future = Discarded
  /\ Len(ops) = MaxOps
  /\ ops[1].future = Failed(PreconditionMessage)
  /\ \A n \in 2..MaxOps : ops[n].future = Discarded
  /\ signalled = [n \in 1..MaxOps |-> n]

\* apply() fails an operation on the precondition exactly when recover() was
\* not invoked yet; with the fetch outstanding it holds the operation behind
\* those already held and touches nothing else.
C19_Applied ==
  Applies =>
    LET n == Len(ops') IN
    /\ ops'[n].future = Failed(PreconditionMessage) <=> recovered = 0
    /\ RecoveredState = "pending" =>
         /\ ops'[n] = NewOperation(ops'[n].kind, ops'[n].id)
         /\ fetches'[recovered].waiters = Append(fetches[recovered].waiters, n)
         /\ UNCHANGED <<registry, variable, error, operations, updating,
                        mailbox, stores, accepted, performed, signalled>>

\* The recovery continuation sets the registry and releases the held
\* operations to _apply in the order they were held; _apply then queues each
\* of them, the registry being set.
C19_Released ==
  /\ Recovers =>
       LET w == fetches[Head(mailbox).arg].waiters IN
       /\ registry' = Some(fetches[Head(mailbox).arg].future.value.value)
       /\ mailbox' = Tail(mailbox) \o [k \in 1..Len(w) |-> Event("_apply", w[k])]
       /\ Waiting' = {}
       /\ ops' = ops
  /\ (Handles("_apply") /\ ~error.some) =>
       /\ registry.some
       /\ accepted' = Append(accepted, Head(mailbox).arg)
       /\ ops'[Head(mailbox).arg].performs = (IF updating THEN 0 ELSE 1)

\* A held operation is pending, neither queued nor performed; an operation
\* is performed only once queued, with the registry set, on a registry that
\* came from storage; a held operation that was committed resolved.
C19_Held ==
  /\ \A n \in Waiting :
       /\ ops[n].future = Pending
       /\ ops[n].performs = 0
       /\ n \notin Range(accepted)
  /\ Waiting # {} => ~registry.some /\ accepted = <<>>
  /\ \A n \in DOMAIN ops :
       /\ ops[n].performs > 0 => registry.some /\ n \in Range(accepted)
       /\ Committed(n) => ops[n].future = Ready(ops[n].success)
  /\ \A k \in DOMAIN mailbox :
       mailbox[k].type = "_apply" =>
         registry.some /\ ops[mailbox[k].arg].future = Pending

\* C19: the precondition failure depends only on whether recover() was
\* invoked.  An apply() handled after recover() and before the fetch
\* completed is not failed on the precondition: it is held until recovery
\* completes, then queued by _apply and committed with its batch, and it is
\* never performed with the registry unset.
C19_HeldUntilRecovered == [](C19_Held) /\ [][C19_Applied /\ C19_Released]_vars

\* After an operation failed on the precondition, two operations are held
\* on a fetch that storage has answered, the continuation still to run.
C19_Witness ==
  /\ Len(ops) = 3
  /\ ops[1].future = Failed(PreconditionMessage)
  /\ fetches # <<>>
  /\ fetches[1].waiters = <<2, 3>>
  /\ fetches[1].future.state = "ready"
  /\ mailbox = <<Event("recovery", 1)>>

\* Every operation of the batch of store call i was rejected.
AllRejected(i) == \A n \in Range(stores[i].applied) : Rejected(n)

\* The performed operations are those of the batches of the store calls,
\* each batch non-empty and each operation in one batch.  A batch whose
\* operations were all rejected stored the registry it started from, with
\* the handle of the commits before it; when that store brings no updated
\* handle the error is recorded and the batch failed, the registry being
\* what it was.
C20_StoredAnyway ==
  /\ performed = Batches(Len(stores))
  /\ \A i \in DOMAIN stores :
       /\ stores[i].applied # <<>>
       /\ AllRejected(i) =>
            /\ stores[i].updatedRegistry = ops[stores[i].applied[1]].before
            /\ stores[i].variable =
                 [value |-> ops[stores[i].applied[1]].before, version |-> i - 1]
            /\ (Handled(i) /\ NotUpdated(i)) =>
                 /\ error.some
                 /\ registry = Some(stores[i].updatedRegistry)
                 /\ \A n \in Range(stores[i].applied) :
                      ops[n].future = Failed(error.value)

\* A step that performs operations issues one store call, for all of them.
C20_PerformStep ==
  performed' # performed =>
    /\ Len(stores') = Len(stores) + 1
    /\ performed' = performed \o stores'[Len(stores')].applied
    /\ stores'[Len(stores')].future = Pending
    /\ updating'

\* C20: every batch started with a non-empty queue issues exactly one store
\* call, whether or not an operation changed the working copy; a batch of
\* rejected operations stores the unchanged registry with the current
\* handle, and a conflict or a failure of that store records the terminal
\* error although nothing was committed or lost.
C20_OneStorePerBatch == [](C20_StoredAnyway) /\ [][C20_PerformStep]_vars

\* After a commit, a batch of one rejected operation stored the committed
\* registry again, met a version mismatch, and the error is recorded.
C20_Witness ==
  \E i \in DOMAIN stores :
    /\ i > 1
    /\ AllRejected(i)
    /\ stores[i].future = Ready(None)
    /\ Handled(i)
    /\ stores[i].updatedRegistry = PersistedBy(i - 1)
    /\ registry = Some(PersistedBy(i - 1))
    /\ error.some

====
